---- MODULE Spec2Model ----
(***************************************************************************)
(* A model of the VM readiness poller of molecule-proxmox                  *)
(* (src/molecule_proxmox/modules/proxmox_qemu_agent.py): run_module,       *)
(* get_vm, query_vm, the start_vm task waiter it calls, and the address    *)
(* extractor/ranker i2a with its priority function; of the driver's        *)
(* login and connection operations (src/molecule_proxmox/driver.py); and   *)
(* of the RDP launcher (src/molecule_proxmox/rdp_launcher.py).             *)
(*                                                                         *)
(* Strings the code inspects are modelled structurally:                    *)
(*   - an address string is the sequence of its dot-separated components   *)
(*     ("10.0.0.9" is <<"10","0","0","9">>, the empty string is <<"">>),   *)
(*     so str.split('.') is the identity on the representation and         *)
(*     str.startswith('127.') is a test on the leading components;         *)
(*   - a message or an exception content is a sequence of text fragments,  *)
(*     str.format fills fragments in and `needle in content` is a          *)
(*     contiguous-subsequence test.                                        *)
(***************************************************************************)
EXTENDS Integers, Sequences, FiniteSets, TLC

VARIABLES
    T,            \* module.params['timeout'] of this invocation
    pc,           \* position of the invocation
    qTimeout,     \* query_vm's local `timeout`
    sTimeout,     \* start_vm's local `timeout`
    addresses,    \* the list query_vm returned
    failMsg,      \* msg handed to module.fail_json
    replies,      \* history: ids of the guest-agent responses received, in order
    ranked,       \* history: the i2a outcome for the last successful reply
    nStartPosts,  \* history: number of status.start.post() submissions
    nTaskChecks,  \* history: number of tasks(taskid).status.get() calls, all start_vm calls
    curChecks,    \* history: status checks made by the current start_vm call
    sawOK,        \* history: some check of the current start_vm call got stopped/OK
    sawErr,       \* history: some check of the current start_vm call got stopped/non-OK
    nLogFetch,    \* history: number of tasks(taskid).log.get() calls
    fetchedLog,   \* history: the log the last log.get() returned
    interfaces,   \* ranker specification: the input of i2a
    out,          \* ranker specification: the outcome of i2a
    addrIn,       \* priority specification: the argument of priority
    prio,         \* priority specification: the outcome of priority
    params,       \* module specification: the credential parameters supplied
    resources,    \* module specification: what cluster.resources.get(type='vm') lists
    authArgs,     \* module specification: the auth_args given to ProxmoxAPI
    result,       \* module specification: what exit_json was given
    failVmid,     \* module specification: the vmid= given to fail_json
    cfgFile,      \* driver specification: the instance config file
    hostArg,      \* driver specification: config.command_args
    subcommand,   \* driver specification: config.subcommand
    instName,     \* driver specification: the instance_name argument
    tmpl,         \* driver specification: the outcome of login_cmd_template
    lopts,        \* driver specification: the outcome of login_options
    aopts,        \* driver specification: the outcome of ansible_connection_options
    argc,         \* launcher specification: len(sys.argv)
    portArg,      \* launcher specification: sys.argv[3], when given
    system,       \* launcher specification: platform.system()
    whichRes,     \* launcher specification: what `which <client>` does, per client
    popenRes,     \* launcher specification: what Popen(<client>) does, per client
    otherRes,     \* launcher specification: what the macOS or Windows launcher returns
    rpc,          \* launcher specification: position of main
    idx,          \* launcher specification: index of the next client to try
    launched,     \* launcher specification: history, the clients Popen started
    success,      \* launcher specification: main's `success`
    exitStatus    \* launcher specification: the exit status of the process

vars == <<T, pc, qTimeout, sTimeout, addresses, failMsg, replies, ranked,
          nStartPosts, nTaskChecks, curChecks, sawOK, sawErr, nLogFetch,
          fetchedLog, interfaces, out,
          addrIn, prio, params, resources, authArgs, result, failVmid,
          cfgFile, hostArg, subcommand, instName, tmpl, lopts, aopts,
          argc, portArg, system, whichRes, popenRes, otherRes, rpc, idx,
          launched, success, exitStatus>>

pollVars == <<T, pc, qTimeout, sTimeout, addresses, failMsg, replies, ranked,
              nStartPosts, nTaskChecks, curChecks, sawOK, sawErr, nLogFetch,
              fetchedLog>>

rankVars == <<interfaces, out>>

prioVars == <<addrIn, prio>>

modVars == <<params, resources, authArgs, result, failVmid>>

drvVars == <<cfgFile, hostArg, subcommand, instName, tmpl, lopts, aopts>>

rdpVars == <<argc, portArg, system, whichRes, popenRes, otherRes, rpc, idx,
             launched, success, exitStatus>>

\* the variables of the specifications other than the poller's and the ranker's
extVars == <<prioVars, modVars, drvVars, rdpVars>>

----------------------------------------------------------------------------
(* Bounds *)

MaxTimeout == 4
MaxIfaces == 3

----------------------------------------------------------------------------
(* Generic helpers for Python values *)

\* dict.get(key, default)
Get(d, k, default) == IF k \in DOMAIN d THEN d[k] ELSE default

\* seq[:n]
Take(s, n) == SubSeq(s, 1, IF Len(s) < n THEN Len(s) ELSE n)

\* needle in hay, on sequences of text fragments
Contains(needle, hay) ==
    \E i \in 0..(Len(hay) - Len(needle)) :
        \A j \in 1..Len(needle) : hay[i + j] = needle[j]

\* ip.startswith(prefix) where prefix is the components of p followed by a dot
StartsWith(ip, p) ==
    /\ Len(ip) >= Len(p) + 1
    /\ \A i \in 1..Len(p) : ip[i] = p[i]

\* str.lower() on the interface names of the model
Lower(s) ==
    CASE s = "LO" -> "lo"
      [] s = "Lo" -> "lo"
      [] s = "Loopback" -> "loopback"
      [] s = "LOOPBACK" -> "loopback"
      [] OTHER -> s

\* int(s): the component strings Python's int() accepts, with their values
IntTable ==
    { <<"0", 0>>, <<"1", 1>>, <<"5", 5>>, <<"8", 8>>, <<"9", 9>>, <<"15", 15>>,
      <<"16", 16>>, <<"20", 20>>, <<"31", 31>>, <<"32", 32>>, <<"40", 40>>,
      <<"168", 168>>, <<"254", 254>>, <<"+20", 20>>, <<"020", 20>> }

CanParseInt(s) == \E p \in IntTable : p[1] = s

IntOf(s) == (CHOOSE p \in IntTable : p[1] = s)[2]

\* str(n) for the numbers the messages of the model mention
Str(n) ==
    CASE n = 100 -> "100"
      [] n = 101 -> "101"
      [] n = 403 -> "403"
      [] n = 500 -> "500"
      [] n = 596 -> "596"

----------------------------------------------------------------------------
(* Address Extractor/Ranker: i2a *)

\* the filter loop of i2a over one interface's 'ip-addresses' list
RECURSIVE AcceptedOf(_, _)
AcceptedOf(entries, k) ==
    IF k > Len(entries) THEN << >>
    ELSE LET ip_address == entries[k]
             atype == Get(ip_address, "ip_address_type", "")
             aip == Get(ip_address, "ip_address", <<"">>)
             keep == /\ aip # <<"">>
                     /\ atype = "ipv4"
                     /\ ~ (StartsWith(aip, <<"127">>) \/ StartsWith(aip, <<"169", "254">>))
         IN (IF keep THEN <<aip>> ELSE << >>) \o AcceptedOf(entries, k + 1)

\* the filter loop of i2a over the interfaces: the list `addrs` before the sort
RECURSIVE Filtered(_, _)
Filtered(ifs, k) ==
    IF k > Len(ifs) THEN << >>
    ELSE LET interface == ifs[k]
             interface_name == Get(interface, "name", "")
             here == IF Lower(interface_name) \in {"lo", "loopback"} THEN << >>
                     ELSE IF "ip_addresses" \in DOMAIN interface
                          THEN AcceptedOf(interface["ip_addresses"], 1)
                          ELSE << >>
         IN here \o Filtered(ifs, k + 1)

\* priority(ip) raises ValueError: int(parts[1]) on a component int() rejects
PriorityRaises(ip) ==
    /\ ~ StartsWith(ip, <<"10">>)
    /\ ~ StartsWith(ip, <<"192", "168">>)
    /\ StartsWith(ip, <<"172">>)
    /\ Len(ip) >= 2
    /\ ~ CanParseInt(ip[2])

\* priority(ip) when it returns
priority(ip) ==
    IF StartsWith(ip, <<"10">>) THEN 0
    ELSE IF StartsWith(ip, <<"192", "168">>) THEN 1
    ELSE IF StartsWith(ip, <<"172">>)
         THEN IF Len(ip) >= 2 /\ 16 <= IntOf(ip[2]) /\ IntOf(ip[2]) <= 31 THEN 2 ELSE 3
    ELSE 3

\* insert x after every element whose key is <= key(x): a stable insertion
RECURSIVE InsertByKey(_, _)
InsertByKey(sorted, x) ==
    IF sorted = << >> THEN <<x>>
    ELSE IF priority(sorted[Len(sorted)]) <= priority(x)
         THEN Append(sorted, x)
         ELSE Append(InsertByKey(SubSeq(sorted, 1, Len(sorted) - 1), x),
                     sorted[Len(sorted)])

\* addrs.sort(key=priority): a stable sort by ascending key
RECURSIVE SortByPriority(_, _)
SortByPriority(addrs, k) ==
    IF k = 0 THEN << >>
    ELSE InsertByKey(SortByPriority(addrs, k - 1), addrs[k])

\* i2a(module, interfaces): the returned list, or the ValueError out of priority
i2a(ifs) ==
    LET addrs == Filtered(ifs, 1)
    IN IF \E i \in 1..Len(addrs) : PriorityRaises(addrs[i])
       THEN [raised |-> TRUE, addrs |-> << >>]
       ELSE [raised |-> FALSE, addrs |-> SortByPriority(addrs, Len(addrs))]

----------------------------------------------------------------------------
(* The hypervisor's side: what the API calls can answer *)

\* the vm get_vm resolved: its vmid and node
vm == [vmid |-> 100, node |-> "pve"]

Entry(atype, aip) == [ip_address_type |-> atype, ip_address |-> aip]

Iface(name, entries) == [name |-> name, ip_addresses |-> entries]

\* the answers of agent.get('network-get-interfaces'): a reply, or a
\* ResourceException with its status_code and content
Response(id) ==
    CASE id = "one" ->
           [exc |-> FALSE, reply |-> [result |->
               <<Iface("eth0", <<Entry("ipv4", <<"192", "168", "1", "5">>)>>)>>]]
      [] id = "many" ->
           [exc |-> FALSE, reply |-> [result |->
               <<Iface("lo", <<Entry("ipv4", <<"127", "0", "0", "1">>)>>),
                 Iface("eth0", <<Entry("ipv4", <<"192", "168", "1", "5">>)>>),
                 Iface("eth1", <<Entry("ipv4", <<"10", "0", "0", "9">>)>>)>>]]
      [] id = "empty" ->
           [exc |-> FALSE, reply |-> [result |-> << >>]]
      [] id = "filtered" ->
           [exc |-> FALSE, reply |-> [result |->
               <<Iface("lo", <<Entry("ipv4", <<"127", "0", "0", "1">>)>>),
                 Iface("eth0", <<Entry("ipv6", <<"fe80::1">>),
                                 Entry("ipv4", <<"169", "254", "7", "7">>)>>)>>]]
      [] id = "noresult" ->
           [exc |-> FALSE, reply |-> [error |-> <<"no data">>]]
      [] id = "none" ->
           [exc |-> FALSE, reply |-> [k \in {} |-> k]]
      [] id = "badaddr" ->
           [exc |-> FALSE, reply |-> [result |->
               <<Iface("eth0", <<Entry("ipv4", <<"172", "x", "5", "1">>)>>)>>]]
      [] id = "vmnr" ->
           [exc |-> TRUE, status_code |-> 500,
            content |-> <<"VM ", "100", " is not running">>]
      [] id = "agentnr" ->
           [exc |-> TRUE, status_code |-> 500,
            content |-> <<"QEMU guest agent is not running">>]
      [] id = "othervm" ->
           [exc |-> TRUE, status_code |-> 500,
            content |-> <<"VM ", "101", " is not running">>]
      [] id = "agent596" ->
           [exc |-> TRUE, status_code |-> 596,
            content |-> <<"QEMU guest agent is not running">>]
      [] id = "vmnr403" ->
           [exc |-> TRUE, status_code |-> 403,
            content |-> <<"VM ", "100", " is not running">>]

ResponseIds ==
    {"one", "many", "empty", "filtered", "noresult", "none", "badaddr",
     "vmnr", "agentnr", "othervm", "agent596", "vmnr403"}

\* the status of a task that finished well
OkTask == [status |-> "stopped", exitstatus |-> "OK"]

\* the answers of tasks(taskid).status.get()
TaskStatuses ==
    { [status |-> "running"],
      OkTask,
      [status |-> "stopped", exitstatus |-> "start failed"] }

\* the answers of tasks(taskid).log.get()
TaskLogs == { << >>, <<"kvm: no such device">>, <<"starting", "TASK ERROR">> }

----------------------------------------------------------------------------
(* Guest-Agent Poller and Task Waiter *)

\* 'VM {0} is not running'.format(vmid)
VmNotRunningText(vmid) == <<"VM ", Str(vmid), " is not running">>

AgentNotRunningText == <<"QEMU guest agent is not running">>

\* mutant: the "not running" test forgets which VM the message names
IsVmNotRunning_AnyVm(e) ==
    /\ e.status_code = 500
    /\ \E id \in {100, 101} : Contains(<<"VM ", Str(id), " is not running">>, e.content)

\* the first branch of query_vm's exception handler
IsVmNotRunning(e) ==
    e.status_code = 500 /\ Contains(VmNotRunningText(vm.vmid), e.content)

\* mutant: the "guest agent is not running" test forgets the status code
IsAgentNotRunning_AnyStatus(e) == Contains(AgentNotRunningText, e.content)

\* the second branch of query_vm's exception handler
IsAgentNotRunning(e) ==
    e.status_code = 500 /\ Contains(AgentNotRunningText, e.content)

\* str(e) of a ResourceException
StrOf(e) == <<Str(e.status_code), ": ">> \o e.content

\* 'Timeout while waiting for vmid {0} IP address'.format(vmid)
QueryTimeoutMsg(vmid) == <<"Timeout while waiting for vmid ", Str(vmid), " IP address">>

\* 'Timeout while starting vmid {0}: {1}'.format(vmid, lastlog)
StartTimeoutMsg(vmid, lastlog) == <<"Timeout while starting vmid ", Str(vmid), ": ">> \o lastlog

\* `reply and 'result' in reply`
HasResult(reply) == DOMAIN reply # {} /\ "result" \in DOMAIN reply

\* mutant: any stopped task counts as started
TaskDone_AnyStopped(task) == task.status = "stopped"

\* the start_vm call's success test on one task status
TaskDone(task) == task.status = "stopped" /\ task.exitstatus = "OK"

\* start_vm's countdown when query_vm calls it
StartBudget == T

NoRank == [raised |-> FALSE, addrs |-> << >>]

RankerIdle == interfaces = << >> /\ out = [done |-> FALSE, raised |-> FALSE, addrs |-> << >>]

\* no outcome yet of an operation that yields a value or raises
NoOutcome == [done |-> FALSE, raised |-> "", value |-> << >>]

PrioIdle == addrIn = <<"">> /\ prio = [done |-> FALSE, raised |-> FALSE, value |-> 0]

ModIdle ==
    /\ params = << >>
    /\ resources = << >>
    /\ authArgs = << >>
    /\ result = << >>
    /\ failVmid = 0

DrvIdle ==
    /\ cfgFile = << >>
    /\ hostArg = ""
    /\ subcommand = ""
    /\ instName = ""
    /\ tmpl = NoOutcome
    /\ lopts = NoOutcome
    /\ aopts = NoOutcome

RdpIdle ==
    /\ argc = 0
    /\ portArg = ""
    /\ system = ""
    /\ whichRes = << >>
    /\ popenRes = << >>
    /\ otherRes = FALSE
    /\ rpc = "idle"
    /\ idx = 0
    /\ launched = << >>
    /\ success = FALSE
    /\ exitStatus = 0

\* the specifications other than the poller's and the ranker's are not running
ExtIdle == PrioIdle /\ ModIdle /\ DrvIdle /\ RdpIdle

Init ==
    /\ T \in 0..MaxTimeout
    /\ pc = "query"
    /\ qTimeout = T
    /\ sTimeout = 0
    /\ addresses = << >>
    /\ failMsg = << >>
    /\ replies = << >>
    /\ ranked = NoRank
    /\ nStartPosts = 0
    /\ nTaskChecks = 0
    /\ curChecks = 0
    /\ sawOK = FALSE
    /\ sawErr = FALSE
    /\ nLogFetch = 0
    /\ fetchedLog = << >>
    /\ RankerIdle
    /\ ExtIdle

\* the tail of a query_vm iteration that found nothing: timeout = timeout - 1,
\* and at zero the break into the code after the loop, which fails
QueryTick ==
    /\ qTimeout' = qTimeout - 1
    /\ IF qTimeout - 1 = 0
       THEN pc' = "failed" /\ failMsg' = QueryTimeoutMsg(vm.vmid)
       ELSE pc' = "query" /\ UNCHANGED failMsg
    /\ UNCHANGED addresses

\* mutant: "guest agent is not running" is reported as an error
QueryRaised_AgentFatal(e) ==
    IF IsVmNotRunning(e)
    THEN /\ pc' = "task"
         /\ sTimeout' = StartBudget
         /\ nStartPosts' = nStartPosts + 1
         /\ curChecks' = 0
         /\ sawOK' = FALSE
         /\ sawErr' = FALSE
         /\ UNCHANGED <<qTimeout, addresses, failMsg, ranked>>
    ELSE /\ pc' = "failed"
         /\ failMsg' = StrOf(e)
         /\ UNCHANGED <<qTimeout, addresses>>
         /\ UNCHANGED <<sTimeout, nStartPosts, curChecks, sawOK, sawErr, ranked>>

\* one iteration of query_vm's loop whose query raised ResourceException e
QueryRaised(e) ==
    IF IsVmNotRunning(e)
    THEN \* start_vm: post the start task and enter its loop
         /\ pc' = "task"
         /\ sTimeout' = StartBudget
         /\ nStartPosts' = nStartPosts + 1
         /\ curChecks' = 0
         /\ sawOK' = FALSE
         /\ sawErr' = FALSE
         /\ UNCHANGED <<qTimeout, addresses, failMsg, ranked>>
    ELSE /\ IF IsAgentNotRunning(e)
            THEN QueryTick
            ELSE /\ pc' = "failed"
                 /\ failMsg' = StrOf(e)
                 /\ UNCHANGED <<qTimeout, addresses>>
         /\ UNCHANGED <<sTimeout, nStartPosts, curChecks, sawOK, sawErr, ranked>>

\* mutant: the ranked list is returned without the test for emptiness
QueryReplied_ReturnsAny(reply) ==
    /\ IF HasResult(reply)
       THEN LET r == i2a(reply.result)
            IN /\ ranked' = r
               /\ IF r.raised
                  THEN pc' = "crashed" /\ UNCHANGED <<qTimeout, addresses, failMsg>>
                  ELSE /\ pc' = "returned"
                       /\ addresses' = r.addrs
                       /\ UNCHANGED <<qTimeout, failMsg>>
       ELSE QueryTick /\ UNCHANGED ranked
    /\ UNCHANGED <<sTimeout, nStartPosts, curChecks, sawOK, sawErr>>

\* one iteration of query_vm's loop whose query returned reply
QueryReplied(reply) ==
    /\ IF HasResult(reply)
       THEN LET r == i2a(reply.result)
            IN /\ ranked' = r
               /\ IF r.raised
                  THEN pc' = "crashed" /\ UNCHANGED <<qTimeout, addresses, failMsg>>
                  ELSE IF Len(r.addrs) > 0
                       THEN /\ pc' = "returned"
                            /\ addresses' = r.addrs
                            /\ UNCHANGED <<qTimeout, failMsg>>
                       ELSE QueryTick
       ELSE QueryTick /\ UNCHANGED ranked
    /\ UNCHANGED <<sTimeout, nStartPosts, curChecks, sawOK, sawErr>>

\* query_vm: one iteration of `while timeout`
Query(id) ==
    /\ pc = "query"
    /\ qTimeout # 0
    /\ replies' = Append(replies, id)
    /\ IF Response(id).exc
       THEN QueryRaised(Response(id))
       ELSE QueryReplied(Response(id).reply)
    /\ UNCHANGED <<T, nTaskChecks, nLogFetch, fetchedLog, interfaces, out, extVars>>

\* query_vm: `while timeout` is false on entry, the code after the loop fails
QueryTimeout ==
    /\ pc = "query"
    /\ qTimeout = 0
    /\ pc' = "failed"
    /\ failMsg' = QueryTimeoutMsg(vm.vmid)
    /\ UNCHANGED <<T, qTimeout, sTimeout, addresses, replies, ranked, nStartPosts,
                   nTaskChecks, curChecks, sawOK, sawErr, nLogFetch, fetchedLog,
                   interfaces, out, extVars>>

\* mutant: after start_vm returns the query loop goes on without its tick
TaskCheck_NoTick(task) ==
    /\ pc = "task"
    /\ sTimeout # 0
    /\ nTaskChecks' = nTaskChecks + 1
    /\ curChecks' = curChecks + 1
    /\ sawOK' = (sawOK \/ task = OkTask)
    /\ sawErr' = (sawErr \/ (task.status = "stopped" /\ task # OkTask))
    /\ IF TaskDone(task)
       THEN /\ pc' = "query"
            /\ UNCHANGED <<sTimeout, qTimeout, addresses, failMsg>>
       ELSE /\ sTimeout' = sTimeout - 1
            /\ UNCHANGED <<pc, qTimeout, addresses, failMsg>>
    /\ UNCHANGED <<T, replies, ranked, nStartPosts, nLogFetch, fetchedLog,
                   interfaces, out, extVars>>

\* mutant: a task that stopped with a failure ends start_vm at once
TaskCheck_FailFast(task) ==
    /\ pc = "task"
    /\ sTimeout # 0
    /\ nTaskChecks' = nTaskChecks + 1
    /\ curChecks' = curChecks + 1
    /\ sawOK' = (sawOK \/ task = OkTask)
    /\ sawErr' = (sawErr \/ (task.status = "stopped" /\ task # OkTask))
    /\ IF TaskDone(task)
       THEN /\ QueryTick
            /\ UNCHANGED sTimeout
       ELSE IF task.status = "stopped"
            THEN /\ pc' = "failed"
                 /\ failMsg' = <<"Start of vmid ", Str(vm.vmid), " failed: ", task.exitstatus>>
                 /\ UNCHANGED <<sTimeout, qTimeout, addresses>>
            ELSE /\ sTimeout' = sTimeout - 1
                 /\ UNCHANGED <<pc, qTimeout, addresses, failMsg>>
    /\ UNCHANGED <<T, replies, ranked, nStartPosts, nLogFetch, fetchedLog,
                   interfaces, out, extVars>>

\* start_vm: one iteration of `while timeout`; on success start_vm returns into
\* query_vm's handler, whose iteration ends with reply = None and a tick
TaskCheck(task) ==
    /\ pc = "task"
    /\ sTimeout # 0
    /\ nTaskChecks' = nTaskChecks + 1
    /\ curChecks' = curChecks + 1
    /\ sawOK' = (sawOK \/ task = OkTask)
    /\ sawErr' = (sawErr \/ (task.status = "stopped" /\ task # OkTask))
    /\ IF TaskDone(task)
       THEN /\ QueryTick
            /\ UNCHANGED sTimeout
       ELSE /\ sTimeout' = sTimeout - 1
            /\ UNCHANGED <<pc, qTimeout, addresses, failMsg>>
    /\ UNCHANGED <<T, replies, ranked, nStartPosts, nLogFetch, fetchedLog,
                   interfaces, out, extVars>>

\* mutant: the timeout of start_vm is logged and control returns to query_vm
StartTimeout_Returns(log) ==
    /\ pc = "task"
    /\ sTimeout = 0
    /\ nLogFetch' = nLogFetch + 1
    /\ fetchedLog' = log
    /\ QueryTick
    /\ UNCHANGED <<T, sTimeout, replies, ranked, nStartPosts,
                   nTaskChecks, curChecks, sawOK, sawErr, interfaces, out, extVars>>

\* start_vm: the code after the loop
StartTimeout(log) ==
    /\ pc = "task"
    /\ sTimeout = 0
    /\ nLogFetch' = nLogFetch + 1
    /\ fetchedLog' = log
    /\ failMsg' = StartTimeoutMsg(vm.vmid, Take(log, 1))
    /\ pc' = "failed"
    /\ UNCHANGED <<T, qTimeout, sTimeout, addresses, replies, ranked, nStartPosts,
                   nTaskChecks, curChecks, sawOK, sawErr, interfaces, out, extVars>>

Next ==
    \/ \E id \in ResponseIds : Query(id)
    \/ QueryTimeout
    \/ \E task \in TaskStatuses : TaskCheck(task)
    \/ \E log \in TaskLogs : StartTimeout(log)

Spec == Init /\ [][Next]_vars

----------------------------------------------------------------------------
(* Properties of the poller *)

\* the number of guest-agent queries issued so far
NumQueries == Len(replies)

\* the id of the last guest-agent response
LastReply == replies[Len(replies)]

\* the number of responses with the given id received so far
CountReplies(id) == Cardinality({i \in 1..Len(replies) : replies[i] = id})

\* the responses that are failures other than the two expected conditions
FatalIds == {"othervm", "agent596", "vmnr403"}

\* the successful replies whose ranked list is empty
EmptyRankIds == {"empty", "filtered"}

\* C1: within one poll invocation with timeout T the task-status checks and the
\* guest-agent queries together number at most T (one shared countdown).
C1_SharedBudget == NumQueries + nTaskChecks <= T

\* C2: the poller returns only on a successful reply whose ranked list is not
\* empty, and returns exactly that list, so a result has at least one address;
\* a successful reply whose ranked list is empty costs one tick, is no error and
\* no result, and the poller is back at its loop (or out of budget).
C2_ResultOnlyFromRankedReply ==
    /\ [](pc = "returned" =>
            /\ NumQueries >= 1
            /\ ~ Response(LastReply).exc
            /\ "result" \in DOMAIN Response(LastReply).reply
            /\ ~ ranked.raised
            /\ ranked.addrs = i2a(Response(LastReply).reply.result).addrs
            /\ addresses = ranked.addrs
            /\ Len(addresses) >= 1)
    /\ [][(pc = "query" /\ NumQueries' = NumQueries + 1
             /\ replies'[NumQueries'] \in EmptyRankIds) =>
            /\ qTimeout' = qTimeout - 1
            /\ addresses' = << >>
            /\ IF qTimeout' # 0
               THEN pc' = "query" /\ failMsg' = << >>
               ELSE pc' = "failed" /\ failMsg' = QueryTimeoutMsg(vm.vmid)]_vars

C2_Witness ==
    /\ pc = "returned"
    /\ NumQueries >= 2
    /\ replies[NumQueries - 1] \in EmptyRankIds
    /\ Len(addresses) = 2

\* C3: with T >= 1 and every query answered "guest agent not running", no error
\* is surfaced while budget remains, no address list is ever returned, and the
\* poll fails after exactly T queries with the timeout error naming the vmid.
C3_AgentNeverUp ==
    (T >= 1 /\ \A i \in 1..NumQueries : replies[i] = "agentnr") =>
        /\ pc \in {"query", "failed"}
        /\ addresses = << >>
        /\ nStartPosts = 0
        /\ (NumQueries < T => pc = "query" /\ failMsg = << >>)
        /\ (NumQueries >= T =>
              /\ NumQueries = T
              /\ pc = "failed"
              /\ failMsg = <<"Timeout while waiting for vmid ", "100", " IP address">>)

C3_Witness ==
    /\ T = 1
    /\ replies = <<"agentnr">>
    /\ pc = "failed"

\* C4: for the responses "VM not running", "agent not running" twice, then one
\* valid IPv4 address, with T >= 4 and the start task ending stopped/OK, the
\* poller returns exactly that address, has submitted exactly one start task and
\* has taken three ticks off query_vm's countdown.
C4_StartThenWaitThenAddress ==
    (replies = <<"vmnr", "agentnr", "agentnr", "one">>) =>
        /\ T >= 4
        /\ pc = "returned"
        /\ addresses = << <<"192", "168", "1", "5">> >>
        /\ nStartPosts = 1
        /\ sawOK
        /\ nLogFetch = 0
        /\ T - qTimeout = 3

C4_Witness ==
    /\ replies = <<"vmnr", "agentnr", "agentnr", "one">>
    /\ pc = "returned"
    /\ curChecks = 2

\* C5: a query failure that is neither "VM <vmid> is not running" nor "QEMU guest
\* agent is not running" with status 500 fails the poll at once with the
\* failure's message; it is the last query, no start task follows it and no
\* address is returned, whatever budget remains.
C5_OtherFailureIsFatal ==
    /\ \A i \in 1..NumQueries : replies[i] \in FatalIds => i = NumQueries
    /\ (NumQueries >= 1 /\ LastReply \in FatalIds) =>
          /\ pc = "failed"
          /\ failMsg = <<Str(Response(LastReply).status_code), ": ">>
                           \o Response(LastReply).content
          /\ addresses = << >>
          /\ nStartPosts = CountReplies("vmnr")
          /\ nLogFetch = 0

C5_Witness ==
    /\ NumQueries >= 2
    /\ LastReply \in FatalIds
    /\ qTimeout >= 2
    /\ pc = "failed"

\* C6: a start task is submitted only in the iteration whose query failed with
\* "VM is not running", once per such failure; when start_vm returns, that
\* iteration takes its tick without returning an address, and the poller is
\* back at its loop if budget remains.
C6_StartOnlyOnVmNotRunning ==
    /\ [](nStartPosts = CountReplies("vmnr"))
    /\ [](pc = "task" => NumQueries >= 1 /\ LastReply = "vmnr")
    /\ [][nStartPosts' # nStartPosts =>
            /\ nStartPosts' = nStartPosts + 1
            /\ replies' = Append(replies, "vmnr")
            /\ pc = "query" /\ pc' = "task"]_vars
    /\ [][(pc = "task" /\ pc' # "task" /\ nLogFetch' = nLogFetch) =>
            /\ sawOK'
            /\ replies' = replies
            /\ qTimeout' = qTimeout - 1
            /\ addresses' = << >>
            /\ IF qTimeout' # 0
               THEN pc' = "query" /\ failMsg' = << >>
               ELSE pc' = "failed" /\ failMsg' = QueryTimeoutMsg(vm.vmid)]_vars

C6_Witness ==
    /\ nStartPosts = 2
    /\ pc = "query"
    /\ sawOK
    /\ LastReply = "vmnr"

\* C7: start_vm returns exactly when one of its status checks, made within its
\* budget, got stopped/OK, and then without fetching the log; otherwise it polls
\* until its budget is zero, fetches the log once and fails with the timeout
\* message holding the vmid and the first log line.
C7_TaskWaiterOutcome ==
    /\ [](pc = "task" => ~ sawOK /\ nLogFetch = 0 /\ curChecks + sTimeout = T)
    /\ [](nLogFetch <= 1)
    /\ [](nLogFetch = 1 =>
            /\ pc = "failed"
            /\ ~ sawOK
            /\ sTimeout = 0
            /\ failMsg = <<"Timeout while starting vmid ", "100", ": ">>
                            \o Take(fetchedLog, 1))
    /\ [][(pc = "task" /\ pc' # "task") =>
            \/ sawOK' /\ nLogFetch' = nLogFetch /\ curChecks' <= T
            \/ ~ sawOK' /\ sTimeout = 0 /\ nLogFetch' = nLogFetch + 1]_vars
    /\ [][(pc = "task" /\ sawOK') => pc' # "task"]_vars

C7_Witness ==
    /\ nLogFetch = 1
    /\ nStartPosts = 2
    /\ fetchedLog = <<"starting", "TASK ERROR">>

C7_WitnessReturn ==
    /\ sawOK
    /\ curChecks = 3
    /\ pc = "query"

\* C8: a status check that gets stopped with an exit status other than OK does
\* not end start_vm: it polls on, and a start_vm call that never gets stopped/OK
\* fails after exactly T checks with the timeout message, whether or not a check
\* got a failed task; there is no other failure message.
C8_NoFailFast ==
    /\ [][(pc = "task" /\ sawErr' /\ ~ sawOK') =>
            \/ pc' = "task" /\ failMsg' = << >> /\ nLogFetch' = 0
            \/ sTimeout = 0 /\ curChecks = T]_vars
    /\ [](nLogFetch = 1 =>
            /\ curChecks = T
            /\ failMsg = StartTimeoutMsg(vm.vmid, Take(fetchedLog, 1)))
    /\ [](pc = "failed" =>
            \/ failMsg = QueryTimeoutMsg(vm.vmid)
            \/ nLogFetch = 1 /\ failMsg = StartTimeoutMsg(vm.vmid, Take(fetchedLog, 1))
            \/ NumQueries >= 1 /\ LastReply \in FatalIds)

C8_Witness ==
    /\ pc = "failed"
    /\ nLogFetch = 1
    /\ sawErr
    /\ T >= 3
    /\ curChecks = T

\* C9: a failure ends the invocation: nothing changes after it and no address
\* list is returned; when start_vm times out the poll has failed, the query that
\* started the VM stays the last one and no address is returned, though
\* query_vm's countdown has ticks left.
C9_FatalEndsPoll ==
    /\ [][pc = "failed" => UNCHANGED pollVars]_vars
    /\ [](pc = "failed" => addresses = << >>)
    /\ [](failMsg # << >> => pc = "failed")
    /\ [](nLogFetch >= 1 =>
            /\ pc = "failed"
            /\ LastReply = "vmnr"
            /\ qTimeout >= 1)

C9_Witness ==
    /\ nLogFetch = 1
    /\ pc = "failed"
    /\ qTimeout >= 2
    /\ NumQueries >= 2

----------------------------------------------------------------------------
(* The ranker on its own: i2a applied to every interface list of the bounds *)

IfNames == {"lo", "Loopback", "eth0", "eth1"}

EntryLists ==
    { <<Entry("ipv4", <<"192", "168", "1", "5">>)>>,
      <<Entry("ipv4", <<"10", "0", "0", "9">>)>>,
      <<Entry("ipv4", <<"127", "0", "0", "1">>)>>,
      <<Entry("ipv6", <<"fe80::1">>),
        Entry("ipv4", <<"172", "20", "5", "1">>),
        Entry("ipv4", <<"169", "254", "7", "7">>)>>,
      <<Entry("IPV4", <<"10", "0", "0", "1">>),
        Entry("ipv4", <<"">>),
        [ip_address |-> <<"10", "0", "0", "2">>],
        Entry("ipv4", <<"172", "40", "5", "1">>),
        Entry("ipv4", <<"8", "8", "8", "8">>)>>,
      <<Entry("ipv4", <<"172", "x", "5", "1">>)>> }

\* the address lists reported on the interfaces with a loopback name
LoEntryLists ==
    { <<Entry("ipv4", <<"127", "0", "0", "1">>)>>,
      <<Entry("ipv4", <<"10", "0", "0", "9">>)>> }

\* the interface records the guest agent may report
InterfaceUniverse ==
    { Iface(n, e) : n \in {"lo", "Loopback"}, e \in LoEntryLists }
    \cup { Iface(n, e) : n \in IfNames \ {"lo", "Loopback"}, e \in EntryLists }
    \cup { Iface("lo", <<Entry("ipv4", <<"172", "x", "5", "1">>)>>) }
    \cup { [name |-> "eth0"],
           [ip_addresses |-> <<Entry("ipv4", <<"192", "168", "1", "5">>)>>] }

InterfaceLists == UNION { [1..n -> InterfaceUniverse] : n \in 0..MaxIfaces }

PollIdle ==
    /\ T = 0
    /\ pc = "idle"
    /\ qTimeout = 0
    /\ sTimeout = 0
    /\ addresses = << >>
    /\ failMsg = << >>
    /\ replies = << >>
    /\ ranked = NoRank
    /\ nStartPosts = 0
    /\ nTaskChecks = 0
    /\ curChecks = 0
    /\ sawOK = FALSE
    /\ sawErr = FALSE
    /\ nLogFetch = 0
    /\ fetchedLog = << >>

InitRanker ==
    /\ PollIdle
    /\ ExtIdle
    /\ interfaces \in InterfaceLists
    /\ out = [done |-> FALSE, raised |-> FALSE, addrs |-> << >>]

\* a call of i2a on the interface list
RunI2a ==
    /\ ~ out.done
    /\ out' = [done |-> TRUE, raised |-> i2a(interfaces).raised,
               addrs |-> i2a(interfaces).addrs]
    /\ UNCHANGED <<interfaces, pollVars, extVars>>

NextRanker == RunI2a

SpecRanker == InitRanker /\ [][NextRanker]_vars

----------------------------------------------------------------------------
(* Properties of the ranker *)

\* the interface names that equal lo or loopback when case is ignored
LoopbackNames ==
    {"lo", "LO", "Lo", "lO", "loopback", "Loopback", "LOOPBACK", "LoopBack"}

\* the entry at position j of interface i passes the filter rules
Survives(ifs, i, j) ==
    LET f == ifs[i]
        e == f.ip_addresses[j]
    IN /\ ~ ("name" \in DOMAIN f /\ f.name \in LoopbackNames)
       /\ "ip_address_type" \in DOMAIN e /\ e.ip_address_type = "ipv4"
       /\ "ip_address" \in DOMAIN e /\ e.ip_address # <<"">>
       /\ ~ (Len(e.ip_address) >= 2 /\ e.ip_address[1] = "127")
       /\ ~ (Len(e.ip_address) >= 3 /\ e.ip_address[1] = "169" /\ e.ip_address[2] = "254")

\* the positions <<interface, entry>> of the entries that pass the filter rules
Survivors(ifs) ==
    { p \in UNION { {<<i, j>> : j \in 1..Len(ifs[i].ip_addresses)} :
                    i \in {k \in 1..Len(ifs) : "ip_addresses" \in DOMAIN ifs[k]} } :
        Survives(ifs, p[1], p[2]) }

\* the number of elements of seq equal to a
Occurrences(seq, a) == Cardinality({k \in 1..Len(seq) : seq[k] = a})

\* the output holds each address as often as entries with it pass the filter
SameAsSurvivors(addrs, ifs) ==
    /\ Len(addrs) = Cardinality(Survivors(ifs))
    /\ \A p \in Survivors(ifs) :
          LET a == ifs[p[1]].ip_addresses[p[2]].ip_address
          IN Occurrences(addrs, a) =
                Cardinality({q \in Survivors(ifs) :
                               ifs[q[1]].ip_addresses[q[2]].ip_address = a})

\* C10: for every list of interface records i2a yields an output, and the output
\* holds exactly the entries that pass the filter (family exactly ipv4, address
\* not empty and not starting with 127. or 169.254., interface not named lo or
\* loopback in any case), one element per passing entry, duplicates kept.
C10_OutputIsFilteredEntries ==
    out.done => (~ out.raised /\ SameAsSurvivors(out.addrs, interfaces))

\* what remains of C10 on the calls of i2a that return
C10_OutputWhenReturned ==
    (out.done /\ ~ out.raised) => SameAsSurvivors(out.addrs, interfaces)

\* the priority class the ranking rules give an accepted address
ClassOf(a) ==
    IF Len(a) >= 2 /\ a[1] = "10" THEN 0
    ELSE IF Len(a) >= 3 /\ a[1] = "192" /\ a[2] = "168" THEN 1
    ELSE IF /\ Len(a) >= 2 /\ a[1] = "172"
            /\ \E p \in IntTable : p[1] = a[2] /\ 16 <= p[2] /\ p[2] <= 31
         THEN 2
    ELSE 3

\* the addresses of class c among addrs, in their order in addrs
OfClass(addrs, c) ==
    LET InClass(a) == ClassOf(a) = c
    IN SelectSeq(addrs, InClass)

\* addrs grouped by ascending class, each class in its input order
StableByClass(addrs) ==
    OfClass(addrs, 0) \o OfClass(addrs, 1) \o OfClass(addrs, 2) \o OfClass(addrs, 3)

\* the interface list lo/127.0.0.1, eth0/192.168.1.5, eth1/10.0.0.9
ExampleInterfaces ==
    <<Iface("lo", <<Entry("ipv4", <<"127", "0", "0", "1">>)>>),
      Iface("eth0", <<Entry("ipv4", <<"192", "168", "1", "5">>)>>),
      Iface("eth1", <<Entry("ipv4", <<"10", "0", "0", "9">>)>>)>>

\* C11: for every list of accepted addresses i2a yields them stably sorted by
\* class (all of class 0, then 1, then 2, then 3, each class in input order);
\* lo/127.0.0.1, eth0/192.168.1.5, eth1/10.0.0.9 yield [10.0.0.9, 192.168.1.5].
C11_StableSortByClass ==
    out.done =>
        /\ ~ out.raised
        /\ out.addrs = StableByClass(Filtered(interfaces, 1))
        /\ (interfaces = ExampleInterfaces =>
              out.addrs = << <<"10", "0", "0", "9">>, <<"192", "168", "1", "5">> >>)

\* what remains of C11 on the calls of i2a that return
C11_SortedWhenReturned ==
    (out.done /\ ~ out.raised) =>
        /\ out.addrs = StableByClass(Filtered(interfaces, 1))
        /\ (interfaces = ExampleInterfaces =>
              out.addrs = << <<"10", "0", "0", "9">>, <<"192", "168", "1", "5">> >>)

C11_ExampleReached ==
    out.done /\ interfaces = ExampleInterfaces /\ Len(out.addrs) = 2

----------------------------------------------------------------------------
(* priority on its own: applied to every address string of the bounds *)

MaxParts == 4

\* the dot-separated components the address strings are built of
Components ==
    {"", "1", "5", "10", "16", "20", "31", "40", "127", "168", "172", "192", "x"}

AddressStrings == UNION { [1..n -> Components] : n \in 1..MaxParts }

InitPriority ==
    /\ PollIdle
    /\ RankerIdle
    /\ ModIdle /\ DrvIdle /\ RdpIdle
    /\ addrIn \in AddressStrings
    /\ prio = [done |-> FALSE, raised |-> FALSE, value |-> 0]

\* a call of priority on the address
RunPriority ==
    /\ ~ prio.done
    /\ prio' = IF PriorityRaises(addrIn)
               THEN [done |-> TRUE, raised |-> TRUE, value |-> 0]
               ELSE [done |-> TRUE, raised |-> FALSE, value |-> priority(addrIn)]
    /\ UNCHANGED <<addrIn, pollVars, rankVars, modVars, drvVars, rdpVars>>

NextPriority == RunPriority

SpecPriority == InitPriority /\ [][NextPriority]_vars

\* the address passes the filter rules on its value
IsAccepted(a) ==
    /\ a # <<"">>
    /\ ~ (Len(a) >= 2 /\ a[1] = "127")
    /\ ~ (Len(a) >= 3 /\ a[1] = "169" /\ a[2] = "254")

\* C12: priority is total on accepted addresses and yields 0 for 10., else 1 for
\* 192.168., else 2 for 172. with an integer second component in [16, 31], else
\* 3, which includes 172. with a second component outside [16, 31] or that is
\* no integer; it never fails.
C12_ClassificationTotal ==
    (prio.done /\ IsAccepted(addrIn)) =>
        /\ ~ prio.raised
        /\ prio.value = ClassOf(addrIn)

\* what remains of C12 on the calls of priority that return
C12_ClassWhenReturned ==
    (prio.done /\ IsAccepted(addrIn) /\ ~ prio.raised) =>
        /\ prio.value = ClassOf(addrIn)
        /\ (addrIn = <<"172", "20", "5", "1">> => prio.value = 2)
        /\ (addrIn = <<"172", "40", "5", "1">> => prio.value = 3)

C12_ExamplesReached ==
    prio.done /\ addrIn = <<"172", "40", "5", "1">> /\ prio.value = 3

----------------------------------------------------------------------------
(* run_module: argument checks, API login, get_vm, query_vm, exit_json *)

MaxModuleTimeout == 2
MaxVms == 2

\* the value of module.params[k] for a parameter that was not supplied
None == "<None>"

\* the credential parameters an invocation may supply, each empty or not
ParamSets ==
    UNION { [ks -> {"", "secret"}] :
            ks \in SUBSET {"api_password", "api_token_id", "api_token_secret"} }

\* module.params[k]
Param(k) == IF k \in DOMAIN params THEN params[k] ELSE None

\* the truth value of a str or None
Truthy(v) == v # None /\ v # ""

\* count_terms of AnsibleModule: how many of the terms were supplied
CountTerms(terms) == Cardinality(terms \cap DOMAIN params)

\* required_together=[('api_token_id', 'api_token_secret')]
RequiredTogether ==
    LET n == CountTerms({"api_token_id", "api_token_secret"})
    IN n = 0 \/ n = 2

\* mutant: the required_one_of declaration is left out
RequiredOneOf_Missing == TRUE

\* required_one_of=[('api_password', 'api_token_id')]
RequiredOneOf == CountTerms({"api_password", "api_token_id"}) >= 1

\* auth_args of run_module
AuthArgs ==
    IF ~ (Truthy(Param("api_token_id")) /\ Truthy(Param("api_token_secret")))
    THEN [user |-> "admin", password |-> Param("api_password")]
    ELSE [user |-> "admin", token_name |-> Param("api_token_id"),
          token_value |-> Param("api_token_secret")]

\* module.params['vmid']
RequestedVmid == vm.vmid

\* the VM resources the cluster may list
VmUniverse ==
    { [vmid |-> 100, node |-> "pve"],
      [vmid |-> 100, node |-> "pve2"],
      [vmid |-> 101, node |-> "pve"] }

ResourceLists == UNION { [1..n -> VmUniverse] : n \in 0..MaxVms }

\* vm_list of get_vm
VmList(rs) == SelectSeq(rs, LAMBDA r : r.vmid = RequestedVmid)

\* 'VM with vmid = %s not found' % vmid
NotFoundMsg(vmid) == <<"VM with vmid = ", Str(vmid), " not found">>

\* 'Multiple VMs with vmid = %s found' % vmid
MultipleMsg(vmid) == <<"Multiple VMs with vmid = ", Str(vmid), " found">>

InitModule ==
    /\ T \in 0..MaxModuleTimeout
    /\ pc = "args"
    /\ qTimeout = 0
    /\ sTimeout = 0
    /\ addresses = << >>
    /\ failMsg = << >>
    /\ replies = << >>
    /\ ranked = NoRank
    /\ nStartPosts = 0
    /\ nTaskChecks = 0
    /\ curChecks = 0
    /\ sawOK = FALSE
    /\ sawErr = FALSE
    /\ nLogFetch = 0
    /\ fetchedLog = << >>
    /\ RankerIdle
    /\ PrioIdle /\ DrvIdle /\ RdpIdle
    /\ params \in ParamSets
    /\ resources = << >>
    /\ authArgs = << >>
    /\ result = << >>
    /\ failVmid = 0

\* AnsibleModule(...) checks the arguments; then run_module logs in to the API
CheckArgs ==
    /\ pc = "args"
    /\ IF RequiredTogether /\ RequiredOneOf
       THEN pc' = "lookup" /\ authArgs' = AuthArgs
       ELSE pc' = "rejected" /\ UNCHANGED authArgs
    /\ UNCHANGED <<T, qTimeout, sTimeout, addresses, failMsg, replies, ranked,
                   nStartPosts, nTaskChecks, curChecks, sawOK, sawErr, nLogFetch,
                   fetchedLog, rankVars, prioVars, params, resources, result,
                   failVmid, drvVars, rdpVars>>

\* mutant: the first match is taken when several VMs match
GetVm_FirstMatch(rs) ==
    /\ pc = "lookup"
    /\ resources' = rs
    /\ IF Len(VmList(rs)) = 0
       THEN /\ pc' = "failed"
            /\ failMsg' = NotFoundMsg(RequestedVmid)
            /\ failVmid' = RequestedVmid
            /\ UNCHANGED qTimeout
       ELSE /\ pc' = "query"
            /\ qTimeout' = T
            /\ UNCHANGED <<failMsg, failVmid>>
    /\ UNCHANGED <<T, sTimeout, addresses, replies, ranked,
                   nStartPosts, nTaskChecks, curChecks, sawOK, sawErr, nLogFetch,
                   fetchedLog, rankVars, prioVars, params, authArgs, result,
                   drvVars, rdpVars>>

\* get_vm on the listed resources rs; with one match run_module enters query_vm
GetVm(rs) ==
    /\ pc = "lookup"
    /\ resources' = rs
    /\ IF Len(VmList(rs)) = 0
       THEN /\ pc' = "failed"
            /\ failMsg' = NotFoundMsg(RequestedVmid)
            /\ failVmid' = RequestedVmid
            /\ UNCHANGED qTimeout
       ELSE IF Len(VmList(rs)) > 1
       THEN /\ pc' = "failed"
            /\ failMsg' = MultipleMsg(RequestedVmid)
            /\ failVmid' = RequestedVmid
            /\ UNCHANGED qTimeout
       ELSE /\ pc' = "query"
            /\ qTimeout' = T
            /\ UNCHANGED <<failMsg, failVmid>>
    /\ UNCHANGED <<T, sTimeout, addresses, replies, ranked,
                   nStartPosts, nTaskChecks, curChecks, sawOK, sawErr, nLogFetch,
                   fetchedLog, rankVars, prioVars, params, authArgs, result,
                   drvVars, rdpVars>>

\* mutant: changed reports whether the VM was started
ExitJson_ChangedOnStart ==
    /\ pc = "returned"
    /\ pc' = "exited"
    /\ result' = [changed |-> nStartPosts > 0, vmid |-> RequestedVmid,
                  addresses |-> addresses]
    /\ UNCHANGED <<T, qTimeout, sTimeout, addresses, failMsg, replies, ranked,
                   nStartPosts, nTaskChecks, curChecks, sawOK, sawErr, nLogFetch,
                   fetchedLog, rankVars, prioVars, params, resources, authArgs,
                   failVmid, drvVars, rdpVars>>

\* the end of run_module: module.exit_json(**result)
ExitJson ==
    /\ pc = "returned"
    /\ pc' = "exited"
    /\ result' = [changed |-> FALSE, vmid |-> RequestedVmid, addresses |-> addresses]
    /\ UNCHANGED <<T, qTimeout, sTimeout, addresses, failMsg, replies, ranked,
                   nStartPosts, nTaskChecks, curChecks, sawOK, sawErr, nLogFetch,
                   fetchedLog, rankVars, prioVars, params, resources, authArgs,
                   failVmid, drvVars, rdpVars>>

NextModule ==
    \/ CheckArgs
    \/ \E rs \in ResourceLists : GetVm(rs)
    \/ \E id \in ResponseIds : Query(id)
    \/ QueryTimeout
    \/ \E task \in TaskStatuses : TaskCheck(task)
    \/ \E log \in TaskLogs : StartTimeout(log)
    \/ ExitJson

SpecModule == InitModule /\ [][NextModule]_vars

----------------------------------------------------------------------------
(* Properties of run_module *)

\* how many listed resources carry the requested vmid
Matches == Len(VmList(resources))

\* get_vm has run
LookedUp == pc \notin {"args", "rejected", "lookup"}

\* the argument checks rejected the invocation
Rejected == pc = "rejected"

\* no request has reached the hypervisor
NoHypervisorCall ==
    /\ DOMAIN authArgs = {}
    /\ resources = << >>
    /\ NumQueries = 0
    /\ nStartPosts = 0

\* C13: when zero or several listed VMs carry the requested vmid, the
\* invocation has failed with the message and the vmid of get_vm, no agent
\* query and no start submission has been made, and the lookup is made once
\* and never again; the poll is entered only with exactly one match.
C13_LookupFailsUnlessOneMatch ==
    /\ [](LookedUp /\ Matches = 0 =>
            /\ pc = "failed"
            /\ failMsg = NotFoundMsg(RequestedVmid)
            /\ failVmid = RequestedVmid
            /\ NumQueries = 0 /\ nStartPosts = 0 /\ addresses = << >>)
    /\ [](LookedUp /\ Matches > 1 =>
            /\ pc = "failed"
            /\ failMsg = MultipleMsg(RequestedVmid)
            /\ failVmid = RequestedVmid
            /\ NumQueries = 0 /\ nStartPosts = 0 /\ addresses = << >>)
    /\ [](pc \in {"query", "task", "returned", "exited"} => Matches = 1)
    /\ [][/\ (pc # "lookup" => resources' = resources)
          /\ (pc \notin {"args", "lookup"} => pc' # "lookup")]_vars

C13_WitnessNone == LookedUp /\ Matches = 0 /\ Len(resources) > 0

C13_Witness ==
    LookedUp /\ Matches > 1 /\ pc = "failed" /\ failVmid = RequestedVmid

\* C16 as stated: an accepted invocation supplies exactly one of the
\* password and the token pair, the pair always whole; a rejected one has
\* made no hypervisor call.
C16_MutuallyExclusive ==
    /\ (pc \notin {"args", "rejected"} =>
          /\ ("api_token_id" \in DOMAIN params <=> "api_token_secret" \in DOMAIN params)
          /\ ("api_password" \in DOMAIN params) # ("api_token_id" \in DOMAIN params))
    /\ (Rejected => NoHypervisorCall)

\* C16 amended: an invocation is accepted exactly when the password or the
\* token id is supplied and the token id and secret are supplied together
\* or not at all; a password together with a whole token pair is accepted,
\* and the token pair is then used when both halves are non-empty, the
\* password otherwise; a rejected invocation has made no hypervisor call.
C16_OneOfAndTogether ==
    /\ (pc # "args" =>
          (~ Rejected <=>
             /\ ("api_token_id" \in DOMAIN params <=> "api_token_secret" \in DOMAIN params)
             /\ ("api_password" \in DOMAIN params \/ "api_token_id" \in DOMAIN params)))
    /\ (Rejected => NoHypervisorCall)
    /\ (pc \notin {"args", "rejected"} =>
          IF /\ "api_token_id" \in DOMAIN params /\ params["api_token_id"] # ""
             /\ "api_token_secret" \in DOMAIN params /\ params["api_token_secret"] # ""
          THEN authArgs = [user |-> "admin", token_name |-> params["api_token_id"],
                           token_value |-> params["api_token_secret"]]
          ELSE /\ DOMAIN authArgs = {"user", "password"}
               /\ authArgs["password"] = Param("api_password"))

C16_WitnessBoth ==
    /\ DOMAIN params = {"api_password", "api_token_id", "api_token_secret"}
    /\ pc = "exited"
    /\ "token_name" \in DOMAIN authArgs

C16_WitnessHalf ==
    /\ DOMAIN params = {"api_password", "api_token_secret"}
    /\ Rejected

\* C19: after exit_json the result carries changed = false, the requested
\* vmid and the addresses query_vm returned, whether or not a start task
\* was submitted; the module exits successfully only through exit_json
\* after query_vm returned.
C19_ExitResult ==
    /\ [](pc = "exited" =>
            /\ result = [changed |-> FALSE, vmid |-> RequestedVmid,
                         addresses |-> addresses]
            /\ addresses = ranked.addrs
            /\ Len(addresses) >= 1)
    /\ [][pc' = "exited" => pc = "returned" /\ addresses' = addresses]_vars

C19_Witness ==
    pc = "exited" /\ nStartPosts >= 1 /\ result.changed = FALSE

C19_WitnessNoStart ==
    pc = "exited" /\ nStartPosts = 0 /\ result.vmid = RequestedVmid

----------------------------------------------------------------------------
(* query_vm and start_vm for every int the timeout parameter accepts *)

MaxLiveTimeout == 2
MaxNegTimeout == 2

\* timeout=dict(type='int', default=300): any int, negative ones included
LiveTimeouts == (0 - MaxNegTimeout)..MaxLiveTimeout

\* Python's int has no lower limit; a countdown below zero is never zero
\* again, so every value under Floor is kept as Floor
Floor == 0 - (MaxNegTimeout + 2)

\* timeout - 1
Dec(n) == IF n - 1 < Floor THEN Floor ELSE n - 1

InitLive ==
    /\ T \in LiveTimeouts
    /\ pc = "query"
    /\ qTimeout = T
    /\ sTimeout = 0
    /\ addresses = << >>
    /\ failMsg = << >>
    /\ replies = << >>
    /\ ranked = NoRank
    /\ nStartPosts = 0
    /\ nTaskChecks = 0
    /\ curChecks = 0
    /\ sawOK = FALSE
    /\ sawErr = FALSE
    /\ nLogFetch = 0
    /\ fetchedLog = << >>
    /\ RankerIdle
    /\ ExtIdle

\* QueryTick on the unbounded countdown
LiveQueryTick ==
    /\ qTimeout' = Dec(qTimeout)
    /\ IF Dec(qTimeout) = 0
       THEN pc' = "failed" /\ failMsg' = QueryTimeoutMsg(vm.vmid)
       ELSE pc' = "query" /\ UNCHANGED failMsg
    /\ UNCHANGED addresses

\* query_vm: one iteration of `while timeout`, the counts of past steps left out
LiveQuery(id) ==
    /\ pc = "query"
    /\ qTimeout # 0
    /\ IF Response(id).exc
       THEN IF IsVmNotRunning(Response(id))
            THEN /\ pc' = "task"
                 /\ sTimeout' = StartBudget
                 /\ UNCHANGED <<qTimeout, addresses, failMsg, ranked>>
            ELSE /\ IF IsAgentNotRunning(Response(id))
                    THEN LiveQueryTick
                    ELSE /\ pc' = "failed"
                         /\ failMsg' = StrOf(Response(id))
                         /\ UNCHANGED <<qTimeout, addresses>>
                 /\ UNCHANGED <<sTimeout, ranked>>
       ELSE /\ IF HasResult(Response(id).reply)
               THEN LET r == i2a(Response(id).reply.result)
                    IN /\ ranked' = r
                       /\ IF r.raised
                          THEN pc' = "crashed" /\ UNCHANGED <<qTimeout, addresses, failMsg>>
                          ELSE IF Len(r.addrs) > 0
                               THEN /\ pc' = "returned"
                                    /\ addresses' = r.addrs
                                    /\ UNCHANGED <<qTimeout, failMsg>>
                               ELSE LiveQueryTick
               ELSE LiveQueryTick /\ UNCHANGED ranked
            /\ UNCHANGED sTimeout
    /\ UNCHANGED <<T, replies, nStartPosts, nTaskChecks, curChecks, sawOK, sawErr,
                   nLogFetch, fetchedLog, interfaces, out, extVars>>

\* start_vm: one iteration of `while timeout`, the counts of past steps left out
LiveTaskCheck(task) ==
    /\ pc = "task"
    /\ sTimeout # 0
    /\ IF TaskDone(task)
       THEN /\ LiveQueryTick
            /\ UNCHANGED sTimeout
       ELSE /\ sTimeout' = Dec(sTimeout)
            /\ UNCHANGED <<pc, qTimeout, addresses, failMsg>>
    /\ UNCHANGED <<T, replies, ranked, nStartPosts, nTaskChecks, curChecks, sawOK,
                   sawErr, nLogFetch, fetchedLog, interfaces, out, extVars>>

NextLive ==
    \/ \E id \in ResponseIds : LiveQuery(id)
    \/ QueryTimeout
    \/ \E task \in TaskStatuses : LiveTaskCheck(task)
    \/ \E log \in TaskLogs : StartTimeout(log)

\* the module is one sequential process: each API call returns or raises and
\* each sleep ends, so a step that can be taken is taken
SpecLive == InitLive /\ [][NextLive]_vars /\ WF_vars(NextLive)

\* C17: for every accepted timeout and every sequence of hypervisor
\* responses the poll eventually ends, by returning addresses or by failing.
C17_PollEnds == <>(pc \in {"returned", "failed", "crashed"})

----------------------------------------------------------------------------
(* driver.py: login_cmd_template, login_options, ansible_connection_options *)

MaxRecords == 2

\* str.lower() on the os_type values of the model
OsLower(s) ==
    CASE s = "Windows" -> "windows"
      [] s = "WINDOWS" -> "windows"
      [] OTHER -> s

\* the os_type entries a record may carry; None is a YAML null
OsTypes == {"windows", "Windows", "WINDOWS", "linux", None}

\* the connection fields every provisioned record carries
BaseRecord(name) == [instance |-> name, address |-> "10.0.0.9", user |-> "admin", port |-> 22]

\* the further fields a record may carry
ExtraFields ==
    { [identity_file |-> "id_rsa"],
      [rdp_port |-> 3390, password |-> "pw"],
      [winrm_transport |-> "kerberos"] }

\* a record of the instance config file as a dict: a function on its keys
RecordUniverse ==
    { BaseRecord("web") @@ x : x \in ExtraFields }
    \cup { (BaseRecord("web") @@ x) @@ [os_type |-> o] : x \in ExtraFields, o \in OsTypes }
    \cup { BaseRecord("db") @@ [identity_file |-> "id_rsa"] }
    \cup { [address |-> "10.0.0.9", user |-> "admin", port |-> 22] }

\* the instance config file: not on disk yet, or a list of records
ConfigFiles ==
    { [exists |-> FALSE, items |-> << >>] }
    \cup { [exists |-> TRUE, items |-> its] :
           its \in UNION { [1..n -> RecordUniverse] : n \in 0..MaxRecords } }

\* next(item for item in items[i:] if item["instance"] == name)
RECURSIVE FirstItem(_, _, _)
FirstItem(items, name, i) ==
    IF i > Len(items)
    THEN [raised |-> "StopIteration", value |-> << >>]
    ELSE IF "instance" \notin DOMAIN items[i]
    THEN [raised |-> "KeyError", value |-> << >>]
    ELSE IF items[i]["instance"] = name
    THEN [raised |-> "", value |-> items[i]]
    ELSE FirstItem(items, name, i + 1)

\* _get_instance_config(instance_name)
GetInstanceConfig(name) ==
    IF ~ cfgFile.exists
    THEN [raised |-> "IOError", value |-> << >>]
    ELSE FirstItem(cfgFile.items, name, 1)

\* _get_target_instance_name()
TargetInstanceName ==
    IF Truthy(hostArg) THEN hostArg
    ELSE IF subcommand # None THEN subcommand
    ELSE None

\* the two login command templates: the command and the fields it formats in
RdpTemplate ==
    [cmd |-> "python3 rdp_launcher.py",
     fields |-> {"address", "user", "rdp_port", "password"}]

SshTemplate ==
    [cmd |-> "ssh", fields |-> {"address", "user", "port", "identity_file"}]

\* " ".join(self.ssh_connection_options)
SshArgs == "-o ..."

Returned(v) == [done |-> TRUE, raised |-> "", value |-> v]

Raised(e) == [done |-> TRUE, raised |-> e, value |-> << >>]

\* the outcome of the property login_cmd_template
LoginCmdTemplateOutcome ==
    LET name == TargetInstanceName
        cfg == GetInstanceConfig(name)
        os == Get(cfg.value, "os_type", "linux")
    IN IF ~ Truthy(name)
       THEN Returned(SshTemplate)
       ELSE IF cfg.raised \in {"StopIteration", "IOError", "KeyError"}
       THEN Returned(SshTemplate)
       ELSE IF os = None
       THEN Raised("AttributeError")
       ELSE IF OsLower(os) = "windows"
       THEN Returned(RdpTemplate)
       ELSE Returned(SshTemplate)

\* the record login_options merges: rdp_port and password filled in
WithWindowsDefaults(d) ==
    LET win == "os_type" \in DOMAIN d /\ d["os_type"] = "windows"
        d1 == IF win /\ "rdp_port" \notin DOMAIN d
              THEN d @@ [rdp_port |-> 3389] ELSE d
    IN IF win /\ "password" \notin DOMAIN d1
       THEN d1 @@ [password |-> ""] ELSE d1

\* the outcome of login_options(instance_name)
LoginOptionsOutcome(name) ==
    LET cfg == GetInstanceConfig(name)
    IN IF cfg.raised # ""
       THEN Raised(cfg.raised)
       ELSE Returned(WithWindowsDefaults(cfg.value) @@ [instance |-> name])

WinRmMapping(d) ==
    [ansible_user |-> d["user"],
     ansible_host |-> d["address"],
     ansible_port |-> d["port"],
     ansible_password |-> Get(d, "password", None),
     connection |-> "winrm",
     ansible_winrm_transport |-> Get(d, "winrm_transport", "ntlm"),
     ansible_winrm_server_cert_validation |-> Get(d, "winrm_cert_validation", "ignore")]

SshMapping(d) ==
    [ansible_user |-> d["user"],
     ansible_host |-> d["address"],
     ansible_port |-> d["port"],
     ansible_private_key_file |-> d["identity_file"],
     connection |-> "ssh",
     ansible_ssh_common_args |-> SshArgs]

\* mutant: StopIteration is not handled
AnsibleConnectionOptionsOutcome_NoStop(name) ==
    LET cfg == GetInstanceConfig(name)
        d == cfg.value
    IN IF cfg.raised = "IOError"
       THEN Returned(<< >>)
       ELSE IF cfg.raised # ""
       THEN Raised(cfg.raised)
       ELSE IF Get(d, "os_type", "linux") = "windows"
       THEN Returned(WinRmMapping(d))
       ELSE IF "identity_file" \notin DOMAIN d
       THEN Raised("KeyError")
       ELSE Returned(SshMapping(d))

\* the outcome of ansible_connection_options(instance_name); {} is << >>
AnsibleConnectionOptionsOutcome(name) ==
    LET cfg == GetInstanceConfig(name)
        d == cfg.value
    IN IF cfg.raised \in {"StopIteration", "IOError"}
       THEN Returned(<< >>)
       ELSE IF cfg.raised # ""
       THEN Raised(cfg.raised)
       ELSE IF Get(d, "os_type", "linux") = "windows"
       THEN Returned(WinRmMapping(d))
       ELSE IF "identity_file" \notin DOMAIN d
       THEN Raised("KeyError")
       ELSE Returned(SshMapping(d))

InitDriver ==
    /\ PollIdle /\ RankerIdle /\ PrioIdle /\ ModIdle /\ RdpIdle
    /\ cfgFile \in ConfigFiles
    /\ hostArg \in {None, "web"}
    /\ subcommand \in {None, "login"}
    /\ instName = "web"
    /\ tmpl = NoOutcome
    /\ lopts = NoOutcome
    /\ aopts = NoOutcome

LoginCmdTemplate ==
    /\ ~ tmpl.done
    /\ tmpl' = LoginCmdTemplateOutcome
    /\ UNCHANGED <<pollVars, rankVars, prioVars, modVars, rdpVars,
                   cfgFile, hostArg, subcommand, instName, lopts, aopts>>

LoginOptions ==
    /\ ~ lopts.done
    /\ lopts' = LoginOptionsOutcome(instName)
    /\ UNCHANGED <<pollVars, rankVars, prioVars, modVars, rdpVars,
                   cfgFile, hostArg, subcommand, instName, tmpl, aopts>>

AnsibleConnectionOptions ==
    /\ ~ aopts.done
    /\ aopts' = AnsibleConnectionOptionsOutcome(instName)
    /\ UNCHANGED <<pollVars, rankVars, prioVars, modVars, rdpVars,
                   cfgFile, hostArg, subcommand, instName, tmpl, lopts>>

NextDriver ==
    \/ LoginCmdTemplate
    \/ LoginOptions
    \/ AnsibleConnectionOptions

SpecDriver == InitDriver /\ [][NextDriver]_vars

----------------------------------------------------------------------------
(* Properties of the driver operations *)

\* the positions of the record _get_instance_config finds for name: the
\* first item keyed by name, every item before it keyed by another name
FoundAt(name) ==
    { i \in 1..Len(cfgFile.items) :
        /\ "instance" \in DOMAIN cfgFile.items[i]
        /\ cfgFile.items[i]["instance"] = name
        /\ \A j \in 1..(i - 1) :
             /\ "instance" \in DOMAIN cfgFile.items[j]
             /\ cfgFile.items[j]["instance"] # name }

Found(name) == cfgFile.exists /\ FoundAt(name) # {}

RecordOf(name) == cfgFile.items[CHOOSE i \in FoundAt(name) : TRUE]

\* every item of the file is keyed by an instance name
WellKeyed ==
    /\ cfgFile.exists
    /\ \A i \in 1..Len(cfgFile.items) : "instance" \in DOMAIN cfgFile.items[i]

\* the file is on disk, its items are keyed, and none is keyed by name
LacksInstance(name) ==
    /\ WellKeyed
    /\ \A i \in 1..Len(cfgFile.items) : cfgFile.items[i]["instance"] # name

C14_WitnessNoFile == aopts.done /\ ~ cfgFile.exists /\ aopts.raised = ""

C14_WitnessWinRm ==
    /\ aopts.done
    /\ Found(instName)
    /\ aopts.raised = ""
    /\ DOMAIN aopts.value # {}
    /\ aopts.value["connection"] = "winrm"
    /\ aopts.value["ansible_password"] = None

C14_WitnessSsh ==
    /\ aopts.done
    /\ Found(instName)
    /\ aopts.raised = ""
    /\ DOMAIN aopts.value # {}
    /\ aopts.value["connection"] = "ssh"

\* the target instance name is known, its record is found and the record's
\* os_type is windows
ResolvesToWindows ==
    /\ Truthy(TargetInstanceName)
    /\ Found(TargetInstanceName)
    /\ "os_type" \in DOMAIN RecordOf(TargetInstanceName)
    /\ RecordOf(TargetInstanceName)["os_type"] # None
    /\ OsLower(RecordOf(TargetInstanceName)["os_type"]) = "windows"

\* C15: login_cmd_template never raises; it returns the RDP launcher
\* template only when the target instance name is known and its record is
\* found with os_type windows, and the SSH template in every other case (no
\* instance name, no record file, no record of the instance, a malformed
\* record, a missing field).
C15_RdpOnlyForWindowsElseSsh ==
    tmpl.done =>
      /\ tmpl.raised = ""
      /\ (tmpl.value = RdpTemplate) => ResolvesToWindows
      /\ (~ ResolvesToWindows) => tmpl.value = SshTemplate

\* C18: for every record of the instance and every spelling of its os_type
\* the three operations agree: login_cmd_template returns the RDP template
\* exactly when ansible_connection_options returns the WinRM mapping, and
\* then login_options returns every field the RDP template formats in.
C18_SameClassification ==
    (/\ tmpl.done /\ lopts.done /\ aopts.done
     /\ TargetInstanceName = instName
     /\ Found(instName)
     /\ "os_type" \in DOMAIN RecordOf(instName) => RecordOf(instName)["os_type"] # None)
    =>
      LET rdp == tmpl.raised = "" /\ tmpl.value = RdpTemplate
          winrm == /\ aopts.raised = ""
                   /\ DOMAIN aopts.value # {}
                   /\ aopts.value["connection"] = "winrm"
      IN /\ rdp <=> winrm
         /\ rdp => (lopts.raised = "" /\ RdpTemplate.fields \subseteq DOMAIN lopts.value)

----------------------------------------------------------------------------
(* rdp_launcher.py: main and launch_rdp_linux *)

MaxArgc == 5

\* rdp_clients of launch_rdp_linux, by cmd[0], in the order of the list
RdpClients == <<"xfreerdp", "remmina", "rdesktop">>

ClientNames == {RdpClients[i] : i \in 1..Len(RdpClients)}

\* platform.system()
Systems == {"Darwin", "Linux", "Windows", "FreeBSD"}

InitRdp ==
    /\ PollIdle /\ RankerIdle /\ PrioIdle /\ ModIdle /\ DrvIdle
    /\ argc \in 1..MaxArgc
    /\ portArg \in {"20", "x"}
    /\ system \in Systems
    /\ whichRes \in [ClientNames -> {"found", "missing", "raises"}]
    /\ popenRes \in [ClientNames -> {"ok", "raises"}]
    /\ otherRes \in BOOLEAN
    /\ rpc = "main"
    /\ idx = 0
    /\ launched = << >>
    /\ success = FALSE
    /\ exitStatus = 0

\* main up to the call of the platform's launcher
MainDispatch ==
    /\ rpc = "main"
    /\ IF argc < 3
       THEN rpc' = "exited" /\ exitStatus' = 1 /\ UNCHANGED idx
       ELSE IF argc > 3 /\ ~ CanParseInt(portArg)
       THEN \* int(sys.argv[3]) raises ValueError, which nothing catches
            rpc' = "exited" /\ exitStatus' = 1 /\ UNCHANGED idx
       ELSE IF system = "Darwin"
       THEN rpc' = "macos" /\ UNCHANGED <<idx, exitStatus>>
       ELSE IF system = "Linux"
       THEN rpc' = "linux" /\ idx' = 1 /\ UNCHANGED exitStatus
       ELSE IF system = "Windows"
       THEN rpc' = "windows" /\ UNCHANGED <<idx, exitStatus>>
       ELSE rpc' = "exited" /\ exitStatus' = 1 /\ UNCHANGED idx
    /\ UNCHANGED <<argc, portArg, system, whichRes, popenRes, otherRes, launched,
                   success, pollVars, rankVars, prioVars, modVars, drvVars>>

\* launch_rdp_macos or launch_rdp_windows: True or False, as the programs
\* they run decide
LaunchOther ==
    /\ rpc \in {"macos", "windows"}
    /\ success' = otherRes
    /\ rpc' = "finish"
    /\ UNCHANGED <<argc, portArg, system, whichRes, popenRes, otherRes, idx, launched,
                   exitStatus, pollVars, rankVars, prioVars, modVars, drvVars>>

\* mutant: an exception ends launch_rdp_linux with False
TryClient_StopsOnError ==
    /\ rpc = "linux"
    /\ LET client == RdpClients[idx]
       IN IF whichRes[client] = "found" /\ popenRes[client] = "ok"
          THEN /\ launched' = Append(launched, client)
               /\ success' = TRUE
               /\ rpc' = "finish"
               /\ UNCHANGED idx
          ELSE IF whichRes[client] = "raises"
                  \/ (whichRes[client] = "found" /\ popenRes[client] = "raises")
                  \/ idx = Len(RdpClients)
          THEN /\ success' = FALSE
               /\ rpc' = "finish"
               /\ UNCHANGED <<idx, launched>>
          ELSE /\ idx' = idx + 1
               /\ UNCHANGED <<rpc, launched, success>>
    /\ UNCHANGED <<argc, portArg, system, whichRes, popenRes, otherRes, exitStatus,
                   pollVars, rankVars, prioVars, modVars, drvVars>>

\* launch_rdp_linux: one iteration of `for cmd in rdp_clients`; after the
\* last client the function returns False
TryClient ==
    /\ rpc = "linux"
    /\ LET client == RdpClients[idx]
           started == /\ launched' = Append(launched, client)
                      /\ success' = TRUE
                      /\ rpc' = "finish"
                      /\ UNCHANGED idx
           goOn == IF idx = Len(RdpClients)
                   THEN /\ success' = FALSE
                        /\ rpc' = "finish"
                        /\ UNCHANGED <<idx, launched>>
                   ELSE /\ idx' = idx + 1
                        /\ UNCHANGED <<rpc, launched, success>>
       IN IF whichRes[client] = "raises"
          THEN goOn      \* except Exception: continue
          ELSE IF whichRes[client] = "found"
          THEN IF popenRes[client] = "raises"
               THEN goOn \* except Exception: continue
               ELSE started
          ELSE goOn      \* returncode # 0
    /\ UNCHANGED <<argc, portArg, system, whichRes, popenRes, otherRes, exitStatus,
                   pollVars, rankVars, prioVars, modVars, drvVars>>

\* main after the launcher returned: sys.exit(1) unless success
MainFinish ==
    /\ rpc = "finish"
    /\ rpc' = "exited"
    /\ exitStatus' = IF success THEN 0 ELSE 1
    /\ UNCHANGED <<argc, portArg, system, whichRes, popenRes, otherRes, idx, launched,
                   success, pollVars, rankVars, prioVars, modVars, drvVars>>

NextRdp ==
    \/ MainDispatch
    \/ LaunchOther
    \/ TryClient
    \/ MainFinish

SpecRdp == InitRdp /\ [][NextRdp]_vars

----------------------------------------------------------------------------
(* Properties of the launcher *)

\* the positions of the clients that are installed and whose launch works
Launchable ==
    { i \in 1..Len(RdpClients) :
        whichRes[RdpClients[i]] = "found" /\ popenRes[RdpClients[i]] = "ok" }

\* main got past its argument handling
ArgsOk == argc >= 3 /\ (argc > 3 => CanParseInt(portArg))

\* C20: on Linux the clients are tried in the order xfreerdp, remmina,
\* rdesktop; at most one is launched, the first that is installed and whose
\* launch does not raise; success is reported exactly when one was launched;
\* when none is launched, or the platform is none of Darwin, Linux and
\* Windows, the process ends with exit status 1.
C20_FirstLaunchableClient ==
    /\ [](RdpClients = <<"xfreerdp", "remmina", "rdesktop">>)
    /\ []((system = "Linux" /\ ArgsOk /\ rpc \in {"finish", "exited"}) =>
            /\ Len(launched) <= 1
            /\ success <=> Len(launched) = 1
            /\ IF Launchable = {}
               THEN launched = << >>
               ELSE launched =
                      << RdpClients[CHOOSE i \in Launchable :
                                      \A j \in Launchable : i <= j] >>)
    /\ []((system = "Linux" /\ ArgsOk /\ rpc = "exited") =>
            exitStatus = IF Len(launched) = 1 THEN 0 ELSE 1)
    /\ []((system \notin {"Darwin", "Linux", "Windows"} /\ rpc = "exited") =>
            exitStatus = 1 /\ launched = << >>)
    /\ [][/\ (rpc = "linux" /\ rpc' = "linux") => idx' = idx + 1
          /\ launched' # launched =>
               (rpc = "linux" /\ launched' = Append(launched, RdpClients[idx]))]_vars

C20_Witness ==
    /\ system = "Linux"
    /\ rpc = "exited"
    /\ launched = <<"rdesktop">>
    /\ whichRes["xfreerdp"] = "found"
    /\ popenRes["xfreerdp"] = "raises"
    /\ whichRes["remmina"] = "raises"
    /\ exitStatus = 0

C20_WitnessNone ==
    /\ system = "Linux"
    /\ ArgsOk
    /\ rpc = "exited"
    /\ launched = << >>
    /\ exitStatus = 1

C20_WitnessUnsupported ==
    system = "FreeBSD" /\ ArgsOk /\ rpc = "exited" /\ exitStatus = 1

====
